---- MODULE Spec2Model ----
(***************************************************************************)
(* Model of the data-warehouse core of fullstack-mlops: the DWHManager     *)
(* connection lifecycle (database.py), schema creation / drop and          *)
(* dimension seeding (schema.py), CSV -> raw -> fact ingestion and the      *)
(* post-load validation (ingestion.py).                                    *)
(*                                                                         *)
(* The embedded engine is modelled at the level of SQL semantics: a table  *)
(* is a sequence of rows, a statement is atomic, a statement against a     *)
(* missing table raises.  The program is single-threaded: while an         *)
(* ingest_house_data call is in progress (pc # "idle") no other operation   *)
(* runs.                                                                   *)
(***************************************************************************)
EXTENDS Integers, Sequences, FiniteSets, TLC

VARIABLES
    connection,               \* DWHManager.connection: None or a handle
    live,                     \* handles opened by duckdb.connect and not closed
    opened,                   \* number of handles opened so far (next handle id - 1)
    lastRet,                  \* what the last connect() returned (None when it raised
                              \* or when disconnect() ran since)
    tables,                   \* names of the tables that exist in the database
    views,                    \* names of the views that exist in the database
    raw_house_data,           \* rows of the staging table
    fact_house_transactions,  \* rows of the fact table
    bronze_raw_house_data,    \* rows of the Bronze layer table
    dim_locations,            \* rows of the three dimension tables
    dim_conditions,
    dim_years,
    pc,                       \* position inside ingest_house_data ("idle" outside)
    csv,                      \* the CSV file given to the current / last ingest_house_data
    df,                       \* the validated DataFrame of that call
    lastIngest,               \* outcome of the last ingest_house_data
    lastValidation,           \* result of the last validate_ingestion or
                              \* validate_bronze_ingestion
    lastBronze,               \* outcome of the last ingest_bronze_data
    lastOp,                   \* last completed public operation
    raised,                   \* that operation raised to its caller
    again,                    \* the last operation other than a validation repeated the
                              \* completed operation before it (an ingest: on the same file)
    before,                   \* raw / fact row counts when such a repeated ingest started
    reseeded,                 \* the dimension rows the last operation, a create_schema,
                              \* overwrote with different values
    dropLog,                  \* the objects the last operation, a drop_schema, issued
                              \* its DROP statements for, in order
    recovering                \* the last create_schema follows one that stopped part-way; the
                              \* current / last ingest_house_data follows a run on the
                              \* same file that was interrupted

connvars == <<connection, live, opened, lastRet>>
dbvars   == <<tables, views, raw_house_data, fact_house_transactions, bronze_raw_house_data,
              dim_locations, dim_conditions, dim_years>>
runvars  == <<pc, csv, df, lastIngest>>
histvars == <<lastOp, raised, again, before, reseeded, dropLog, recovering>>
vars     == <<connvars, dbvars, runvars, lastValidation, lastBronze, histvars>>

(***************************************************************************)
(* Bounds of the model.                                                    *)
(***************************************************************************)
MaxRows == 2       \* longest CSV file (data rows)
MaxOpens == 2      \* handles a manager opens over its life
MaxFilterRows == 2 \* longest file given to _load_and_validate_csv on its own

None == 0
Handles == 1..MaxOpens

(***************************************************************************)
(* Schema objects (schema.py, HOUSE_PRICE_SCHEMA).                         *)
(***************************************************************************)
SchemaTables == {"raw_house_data", "dim_locations", "dim_conditions",
                 "dim_years", "fact_house_transactions"}
SchemaViews  == {"v_house_analytics", "v_summary_statistics",
                 "v_location_analytics", "v_condition_analytics"}

YearMin == 1940
YearMax == 2020
MinYearBuilt == 1900
CurrentYear == 2026

\* f"{year//10*10}s"
Decade(year) == <<(year \div 10) * 10, "s">>
\* "20th" if year < 2000 else "21st"
Century(year) == IF year < 2000 THEN "20th" ELSE "21st"

LocationSeed ==
    << [location_id |-> 1, location_name |-> "Suburb",     location_type |-> "Residential"],
       [location_id |-> 2, location_name |-> "Downtown",   location_type |-> "Urban"],
       [location_id |-> 3, location_name |-> "Rural",      location_type |-> "Rural"],
       [location_id |-> 4, location_name |-> "Waterfront", location_type |-> "Premium"],
       [location_id |-> 5, location_name |-> "Urban",      location_type |-> "Urban"],
       [location_id |-> 6, location_name |-> "Mountain",   location_type |-> "Premium"] >>

ConditionSeed ==
    << [condition_id |-> 1, condition_name |-> "Poor",      condition_score |-> 1],
       [condition_id |-> 2, condition_name |-> "Fair",      condition_score |-> 2],
       [condition_id |-> 3, condition_name |-> "Good",      condition_score |-> 3],
       [condition_id |-> 4, condition_name |-> "Excellent", condition_score |-> 4] >>

\* variant: year_id counted from 0
YearSeedFromZero ==
    [i \in 1..(YearMax - YearMin + 1) |->
        [year_id |-> i - 1, year_value |-> YearMin + i - 1,
         decade |-> Decade(YearMin + i - 1), century |-> Century(YearMin + i - 1)]]

\* variant: the years are seeded over the whole range the validation accepts
YearSeedValidated ==
    [i \in 1..(CurrentYear - MinYearBuilt + 1) |->
        [year_id |-> i, year_value |-> MinYearBuilt + i - 1,
         decade |-> Decade(MinYearBuilt + i - 1),
         century |-> Century(MinYearBuilt + i - 1)]]

\* for i, year in enumerate(range(1940, 2021)): (i+1, year, decade, century)
YearSeed ==
    [i \in 1..(YearMax - YearMin + 1) |->
        [year_id |-> i, year_value |-> YearMin + i - 1,
         decade |-> Decade(YearMin + i - 1), century |-> Century(YearMin + i - 1)]]

(***************************************************************************)
(* INSERT ... ON CONFLICT (key) DO UPDATE SET <every other seed column> =   *)
(* EXCLUDED.<column>.  A seed row whose key is already in the table        *)
(* overwrites the seed columns of that row and leaves is_active alone; a    *)
(* new key is appended with the column default is_active = TRUE.           *)
(***************************************************************************)
\* the values of one column of a table
Column(table, col) == {table[j][col] : j \in 1..Len(table)}

\* variant: ON CONFLICT DO NOTHING, the existing row is kept as it is
DoNothing(row, s) == row

\* DO UPDATE SET column = EXCLUDED.column, for every column of the seed row
DoUpdate(row, s) == [f \in DOMAIN row |-> IF f \in DOMAIN s THEN s[f] ELSE row[f]]

\* a seed row inserted as a new row: is_active takes its default
Inserted(s) == [f \in DOMAIN s \cup {"is_active"} |->
                    IF f = "is_active" THEN TRUE ELSE s[f]]

\* variant: a plain INSERT, no seed row is taken as a conflict
ConflictNever(keys, s, key) == FALSE

\* a seed row conflicts with the table when its key is already there
Conflict(keys, s, key) == s[key] \in keys

\* the whole statement; the keys of the seed rows are distinct
Upsert(table, seed, key) ==
    LET keys     == Column(table, key)
        seedKeys == Column(seed, key)
        excluded == [k \in seedKeys |-> CHOOSE i \in 1..Len(seed) : seed[i][key] = k]
        updated  == [j \in 1..Len(table) |->
                       IF table[j][key] \in seedKeys
                       THEN IF Conflict(keys, seed[excluded[table[j][key]]], key)
                            THEN DoUpdate(table[j], seed[excluded[table[j][key]]])
                            ELSE table[j]
                       ELSE table[j]]
        fresh    == SelectSeq(seed, LAMBDA s : ~Conflict(keys, s, key))
    IN  updated \o [i \in 1..Len(fresh) |-> Inserted(fresh[i])]

\* UNIQUE NOT NULL on the business name / value column
UniqueOn(table, col) == Cardinality(Column(table, col)) = Len(table)

(***************************************************************************)
(* DWHManager (database.py).                                               *)
(***************************************************************************)
\* The outcomes of one connect() call from the current state: the handle is
\* reused when one is held; otherwise duckdb.connect may raise (nothing is
\* assigned), or it returns a new handle that is assigned to self.connection
\* before INSTALL / LOAD / SET run, any of which may raise.
\* variant: connect() without the "if self.connection is None" test, a new
\* handle on every call
connect_fresh ==
    {[connection |-> None, live |-> live,
      opened |-> opened, ret |-> None, raised |-> TRUE]}
    \cup {[connection |-> opened + 1,
           live |-> live \cup {opened + 1}, opened |-> opened + 1,
           ret |-> IF ok THEN opened + 1 ELSE None, raised |-> ~ok]
          : ok \in BOOLEAN}

connect ==
    IF connection # None
    THEN {[connection |-> connection, live |-> live,
           opened |-> opened, ret |-> connection, raised |-> FALSE]}
    ELSE {[connection |-> None, live |-> live,
           opened |-> opened, ret |-> None, raised |-> TRUE]}
         \cup {[connection |-> opened + 1,
                live |-> live \cup {opened + 1}, opened |-> opened + 1,
                ret |-> IF ok THEN opened + 1 ELSE None, raised |-> ~ok]
               : ok \in BOOLEAN}

\* connect() can be modelled from this state (the handle counter is capped)
CanConnect == connection # None \/ opened < MaxOpens

SetConn(o) ==
    /\ connection' = o.connection
    /\ live' = o.live
    /\ opened' = o.opened
    /\ lastRet' = o.ret

\* disconnect(): close() and reset when a handle is held; an exception of
\* close() is logged and swallowed, after which self.connection is still set.
\* A close() that raised may or may not have released the handle.
disconnect(closeRaises, released) ==
    IF connection # None
    THEN IF closeRaises
         THEN [connection |-> connection,
               live |-> IF released THEN live \ {connection} ELSE live]
         ELSE [connection |-> None, live |-> live \ {connection}]
    ELSE [connection |-> connection, live |-> live]

(***************************************************************************)
(* The database as a value, so that the schema and ingestion functions can *)
(* be composed the way the code calls them.                                *)
(***************************************************************************)
DB == [tables |-> tables, views |-> views,
       raw |-> raw_house_data, fact |-> fact_house_transactions,
       bronze |-> bronze_raw_house_data,
       locations |-> dim_locations, conditions |-> dim_conditions,
       years |-> dim_years]

SetDB(d) ==
    /\ tables' = d.tables
    /\ views' = d.views
    /\ raw_house_data' = d.raw
    /\ fact_house_transactions' = d.fact
    /\ bronze_raw_house_data' = d.bronze
    /\ dim_locations' = d.locations
    /\ dim_conditions' = d.conditions
    /\ dim_years' = d.years

\* DWHManager.table_exists: a row of information_schema.tables with that name
table_exists(d, name) == name \in d.tables \cup d.views

\* DWHManager.get_table_count: SELECT COUNT(*) FROM <table>
get_table_count(d, name) ==
    CASE name = "raw_house_data" -> Len(d.raw)
      [] name = "fact_house_transactions" -> Len(d.fact)
      [] name = "dim_locations" -> Len(d.locations)
      [] name = "dim_conditions" -> Len(d.conditions)
      [] name = "dim_years" -> Len(d.years)
      [] name = "bronze_raw_house_data" -> Len(d.bronze)

(***************************************************************************)
(* schema.py                                                               *)
(***************************************************************************)
\* variant: the seed skipped when dim_locations already holds rows
_insert_dimension_data_once(d) ==
    IF d.locations # <<>> THEN [db |-> d, raised |-> FALSE]
    ELSE [db |-> [d EXCEPT !.locations = LocationSeed, !.conditions = ConditionSeed,
                           !.years = YearSeed],
          raised |-> FALSE]

\* _insert_dimension_data: three upsert scripts in turn; a script that
\* violates UNIQUE on the business column raises and leaves its table as it was.
_insert_dimension_data(d) ==
    LET locs  == Upsert(d.locations, LocationSeed, "location_id")
        conds == Upsert(d.conditions, ConditionSeed, "condition_id")
        yrs   == Upsert(d.years, YearSeed, "year_id")
    IN  IF ~UniqueOn(locs, "location_name")
        THEN [db |-> d, raised |-> TRUE]
        ELSE IF ~UniqueOn(conds, "condition_name")
        THEN [db |-> [d EXCEPT !.locations = locs], raised |-> TRUE]
        ELSE IF ~UniqueOn(yrs, "year_value")
        THEN [db |-> [d EXCEPT !.locations = locs, !.conditions = conds], raised |-> TRUE]
        ELSE [db |-> [d EXCEPT !.locations = locs, !.conditions = conds, !.years = yrs],
              raised |-> FALSE]

\* HOUSE_PRICE_SCHEMA: CREATE TABLE IF NOT EXISTS x 5, CREATE OR REPLACE VIEW x 4
HOUSE_PRICE_SCHEMA(d) ==
    [d EXCEPT !.tables = @ \cup SchemaTables, !.views = @ \cup SchemaViews]

\* the statements of create_schema in the order they run: the five CREATE
\* TABLE and four CREATE VIEW of the DDL script, then the three seed scripts
CreateOrder ==
    <<"raw_house_data", "dim_locations", "dim_conditions", "dim_years",
      "fact_house_transactions",
      "v_house_analytics", "v_summary_statistics", "v_location_analytics",
      "v_condition_analytics",
      "seed dim_locations", "seed dim_conditions", "seed dim_years">>

\* the database after the first k statements of create_schema
create_schema_partial(d, k) ==
    LET objs == {CreateOrder[i] : i \in 1..k}
    IN  [d EXCEPT !.tables = @ \cup (objs \cap SchemaTables),
                  !.views = @ \cup (objs \cap SchemaViews),
                  !.locations = IF "seed dim_locations" \in objs
                                THEN Upsert(@, LocationSeed, "location_id") ELSE @,
                  !.conditions = IF "seed dim_conditions" \in objs
                                 THEN Upsert(@, ConditionSeed, "condition_id") ELSE @,
                  !.years = IF "seed dim_years" \in objs
                            THEN Upsert(@, YearSeed, "year_id") ELSE @]

\* create_schema: the DDL script, then the dimension seed
create_schema(d) == _insert_dimension_data(HOUSE_PRICE_SCHEMA(d))

\* variant: DROP TABLE without the table_exists test
drop_table_unchecked(d, name) ==
    IF name \notin d.tables THEN [db |-> d, raised |-> TRUE]
    ELSE [db |-> [d EXCEPT !.tables = @ \ {name}], raised |-> FALSE]

\* DWHManager.drop_table: DROP TABLE when the table exists, else a warning.
\* The engine refuses to drop a dimension table the fact table still references.
drop_table(d, name) ==
    IF ~table_exists(d, name) THEN [db |-> d, raised |-> FALSE]
    ELSE IF name \in {"dim_locations", "dim_conditions", "dim_years"}
            /\ "fact_house_transactions" \in d.tables
    THEN [db |-> d, raised |-> TRUE]
    ELSE [db |-> [d EXCEPT !.tables = @ \ {name},
                           !.raw = IF name = "raw_house_data" THEN <<>> ELSE @,
                           !.fact = IF name = "fact_house_transactions" THEN <<>> ELSE @,
                           !.bronze = IF name = "bronze_raw_house_data" THEN <<>> ELSE @,
                           !.locations = IF name = "dim_locations" THEN <<>> ELSE @,
                           !.conditions = IF name = "dim_conditions" THEN <<>> ELSE @,
                           !.years = IF name = "dim_years" THEN <<>> ELSE @],
          raised |-> FALSE]

\* variant: the dimension tables first
DropOrderDimensionsFirst ==
    <<"dim_years", "dim_conditions", "dim_locations",
      "raw_house_data", "fact_house_transactions">>

\* variant: the bronze table dropped with the schema
DropOrderWithBronze ==
    <<"fact_house_transactions", "raw_house_data", "bronze_raw_house_data",
      "dim_locations", "dim_conditions", "dim_years">>

\* the order in which drop_schema drops the tables
DropOrder == <<"fact_house_transactions", "raw_house_data",
               "dim_locations", "dim_conditions", "dim_years">>

\* one entry of the log of a drop_schema call: the object a drop was attempted
\* for, and whether the database held it at that moment
DropEntry(d, name) == [name |-> name, existed |-> name \in d.tables \cup d.views]

\* for table in tables: dwh_manager.drop_table(table), from the i-th table on;
\* log is the drops attempted so far
RECURSIVE DropFrom(_, _, _)
DropFrom(d, i, log) ==
    IF i > Len(DropOrder) THEN [db |-> d, raised |-> FALSE, log |-> log]
    ELSE LET r == drop_table(d, DropOrder[i])
             l == Append(log, DropEntry(d, DropOrder[i]))
         IN  IF r.raised
             THEN [db |-> r.db, raised |-> TRUE, log |-> l]
             ELSE DropFrom(r.db, i + 1, l)

\* the order in which drop_schema drops the views
DropViewOrder == <<"v_house_analytics", "v_summary_statistics",
                   "v_location_analytics", "v_condition_analytics">>

\* drop_schema: DROP VIEW IF EXISTS for the four views, an exception of one of
\* them logged and swallowed, then the tables in order.  The first `skipped`
\* DROP VIEW statements raised: they are the ones that found no usable
\* connection, every statement after a connect() that left a handle finds it.
drop_schema(d, skipped) ==
    DropFrom([d EXCEPT !.views =
                 @ \ {DropViewOrder[i] : i \in (skipped + 1)..Len(DropViewOrder)}],
             1, [i \in 1..Len(DropViewOrder) |-> DropEntry(d, DropViewOrder[i])])

(***************************************************************************)
(* CSV files.  A cell of a numeric column is text that either parses as a  *)
(* number or does not; a text cell is a string, "" for an empty field.     *)
(***************************************************************************)
Num(v) == [num |-> TRUE, val |-> v]
Junk   == [num |-> FALSE, val |-> 0]

GoodRow == [price |-> Num(100), sqft |-> Num(50), bedrooms |-> Num(2),
            bathrooms |-> Num(1), location |-> "Suburb",
            year_built |-> Num(1990), condition |-> "Good"]

\* the rows a modelled CSV file is made of: one that loads into the fact
\* table, one per business key that no dimension row carries, one the range
\* filter drops and one the numeric coercion drops
CsvRows == { GoodRow,
             [GoodRow EXCEPT !.location = "Atlantis"],
             [GoodRow EXCEPT !.year_built = Num(MinYearBuilt)],
             [GoodRow EXCEPT !.price = Num(0), !.sqft = Junk] }

required_columns == {"price", "sqft", "bedrooms", "bathrooms", "location",
                     "year_built", "condition"}

RECURSIVE SeqsUpTo(_, _)
SeqsUpTo(S, n) ==
    IF n = 0 THEN {<<>>}
    ELSE LET shorter == SeqsUpTo(S, n - 1)
         IN  shorter \cup {Append(q, x) : q \in shorter, x \in S}

\* the files given to ingest_house_data: every sequence of rows up to MaxRows
\* under the full header, and one file whose header lacks a required column
CsvFiles ==
    {[columns |-> required_columns, rows |-> q] : q \in SeqsUpTo(CsvRows, MaxRows)}
    \cup {[columns |-> required_columns \ {"condition"}, rows |-> <<>>]}

(***************************************************************************)
(* ingestion.py                                                            *)
(***************************************************************************)
NaN == <<>>
IsNa(c) == c = NaN

\* pd.to_numeric(column, errors='coerce') on one cell
to_numeric(cell) == IF cell.num THEN <<cell.val>> ELSE NaN

\* a text cell as pandas reads it
read_text(cell) == IF cell = "" THEN NaN ELSE <<cell>>

RECURSIVE SortedSeq(_)
SortedSeq(S) ==
    IF S = {} THEN <<>>
    ELSE LET m == CHOOSE x \in S : \A y \in S : x <= y
         IN  <<m>> \o SortedSeq(S \ {m})

\* the frame after read_csv and the five to_numeric calls; index is the row label
Coerced(c) ==
    [i \in 1..Len(c.rows) |->
        [index |-> i - 1,
         price |-> to_numeric(c.rows[i].price),
         sqft |-> to_numeric(c.rows[i].sqft),
         bedrooms |-> to_numeric(c.rows[i].bedrooms),
         bathrooms |-> to_numeric(c.rows[i].bathrooms),
         location |-> read_text(c.rows[i].location),
         year_built |-> to_numeric(c.rows[i].year_built),
         condition |-> read_text(c.rows[i].condition)]]

\* df.dropna(): a row with a missing value in any column goes
NoNa(r) == \A f \in required_columns : ~IsNa(r[f])

\* variant: the lower bound on year_built exclusive
InRangeExclusive(r) ==
    /\ r.price[1] > 0
    /\ r.sqft[1] > 0
    /\ r.bedrooms[1] > 0
    /\ r.bathrooms[1] > 0
    /\ r.year_built[1] > MinYearBuilt
    /\ r.year_built[1] <= CurrentYear

\* the range filter of _load_and_validate_csv
InRange(r) ==
    /\ r.price[1] > 0
    /\ r.sqft[1] > 0
    /\ r.bedrooms[1] > 0
    /\ r.bathrooms[1] > 0
    /\ r.year_built[1] >= MinYearBuilt
    /\ r.year_built[1] <= CurrentYear

\* variant: a missing column is tolerated, its rows are dropped as invalid
_load_and_validate_csv_lenient(c) ==
    IF ~(required_columns \subseteq c.columns)
    THEN [df |-> <<>>, raised |-> FALSE]
    ELSE LET co   == Coerced(c)
             keep == {i \in 1..Len(co) : NoNa(co[i]) /\ InRange(co[i])}
             ord  == SortedSeq(keep)
         IN  [df |-> [k \in 1..Len(ord) |->
                        [f \in DOMAIN co[ord[k]] |->
                            IF f = "index" THEN co[ord[k]].index ELSE co[ord[k]][f][1]]],
              raised |-> FALSE]

\* _load_and_validate_csv: raises on a missing required column; otherwise the
\* rows that survive dropna() and then the range filter, labels kept
_load_and_validate_csv(c) ==
    IF ~(required_columns \subseteq c.columns)
    THEN [df |-> <<>>, raised |-> TRUE]
    ELSE LET co   == Coerced(c)
             keep == {i \in 1..Len(co) : NoNa(co[i]) /\ InRange(co[i])}
             ord  == SortedSeq(keep)
         IN  [df |-> [k \in 1..Len(ord) |->
                        [f \in DOMAIN co[ord[k]] |->
                            IF f = "index" THEN co[ord[k]].index ELSE co[ord[k]][f][1]]],
              raised |-> FALSE]

\* INTEGER PRIMARY KEY on the identity column of a table
PrimaryKeyHolds(rows, col) == UniqueOn(rows, col)

\* variant: no DELETE, the new rows are appended with ids after the old ones
_ingest_raw_data_accumulate(dfv, d, emptyRaises) ==
    IF "raw_house_data" \notin d.tables THEN [db |-> d, raised |-> TRUE]
    ELSE LET data_tuples ==
                [k \in 1..Len(dfv) |->
                    [id |-> Len(d.raw) + k, price |-> dfv[k].price, sqft |-> dfv[k].sqft,
                     bedrooms |-> dfv[k].bedrooms, bathrooms |-> dfv[k].bathrooms,
                     location |-> dfv[k].location, year_built |-> dfv[k].year_built,
                     condition |-> dfv[k].condition]]
         IN  IF Len(data_tuples) = 0 /\ emptyRaises
             THEN [db |-> d, raised |-> TRUE]
             ELSE [db |-> [d EXCEPT !.raw = @ \o data_tuples], raised |-> FALSE]

\* variant: id taken from the row label instead of range(1, len(df) + 1)
_ingest_raw_data_labels(dfv, d, emptyRaises) ==
    IF "raw_house_data" \notin d.tables THEN [db |-> d, raised |-> TRUE]
    ELSE [db |-> [d EXCEPT !.raw =
                     [k \in 1..Len(dfv) |->
                         [id |-> dfv[k].index + 1, price |-> dfv[k].price,
                          sqft |-> dfv[k].sqft, bedrooms |-> dfv[k].bedrooms,
                          bathrooms |-> dfv[k].bathrooms, location |-> dfv[k].location,
                          year_built |-> dfv[k].year_built,
                          condition |-> dfv[k].condition]]],
          raised |-> Len(dfv) = 0 /\ emptyRaises]

\* variant: the rows written without the table being there
_ingest_raw_data_unchecked(dfv, d, emptyRaises) ==
    [db |-> [d EXCEPT !.raw =
                [k \in 1..Len(dfv) |->
                    [id |-> k, price |-> dfv[k].price, sqft |-> dfv[k].sqft,
                     bedrooms |-> dfv[k].bedrooms, bathrooms |-> dfv[k].bathrooms,
                     location |-> dfv[k].location, year_built |-> dfv[k].year_built,
                     condition |-> dfv[k].condition]]],
     raised |-> Len(dfv) = 0 /\ emptyRaises]

\* _ingest_raw_data: DELETE FROM raw_house_data (twice), ids 1..N, executemany.
\* executemany with no parameter sets is an engine matter: it may raise.
_ingest_raw_data(dfv, d, emptyRaises) ==
    IF "raw_house_data" \notin d.tables THEN [db |-> d, raised |-> TRUE]
    ELSE LET cleared == [d EXCEPT !.raw = <<>>]
             data_tuples ==
                [k \in 1..Len(dfv) |->
                    [id |-> k, price |-> dfv[k].price, sqft |-> dfv[k].sqft,
                     bedrooms |-> dfv[k].bedrooms, bathrooms |-> dfv[k].bathrooms,
                     location |-> dfv[k].location, year_built |-> dfv[k].year_built,
                     condition |-> dfv[k].condition]]
         IN  IF Len(data_tuples) = 0 /\ emptyRaises
             THEN [db |-> cleared, raised |-> TRUE]
             ELSE IF ~PrimaryKeyHolds(cleared.raw \o data_tuples, "id")
             THEN [db |-> cleared, raised |-> TRUE]
             ELSE [db |-> [cleared EXCEPT !.raw = @ \o data_tuples], raised |-> FALSE]

\* dict(zip(result[name], result[id])) over the rows WHERE is_active = TRUE:
\* a later row with the same name wins
Mapping(table, name, id) ==
    LET act == {j \in 1..Len(table) : table[j].is_active}
    IN  [n \in {table[j][name] : j \in act} |->
            LET same == {j \in act : table[j][name] = n}
            IN  table[CHOOSE j \in same : \A k \in same : k <= j][id]]

\* variant: the query without WHERE is_active = TRUE
_get_location_mapping_all(d) ==
    [n \in Column(d.locations, "location_name") |->
        LET same == {j \in 1..Len(d.locations) : d.locations[j].location_name = n}
        IN  d.locations[CHOOSE j \in same : \A k \in same : k <= j].location_id]

\* variant: dict(zip(result['year_id'], result['year_value'])), the columns swapped
_get_year_mapping_swapped(d) == Mapping(d.years, "year_id", "year_value")

_get_location_mapping(d) == Mapping(d.locations, "location_name", "location_id")

_get_condition_mapping(d) == Mapping(d.conditions, "condition_name", "condition_id")

_get_year_mapping(d) == Mapping(d.years, "year_value", "year_id")

\* variant: .map(mapping).fillna(1), a key the mapping lacks takes id 1
MapKeyDefault(m, k) == IF k \in DOMAIN m THEN <<m[k]>> ELSE <<1>>

\* Series.map(mapping): NaN for a key the mapping lacks
MapKey(m, k) == IF k \in DOMAIN m THEN <<m[k]>> ELSE NaN

\* the FOREIGN KEY constraints of fact_house_transactions
ForeignKeysHold(d, t) ==
    /\ t.location_id \in Column(d.locations, "location_id")
    /\ t.condition_id \in Column(d.conditions, "condition_id")
    /\ t.year_built_id \in Column(d.years, "year_id")

\* the rows of df_fact kept by dropna(subset=[location_id, condition_id, year_built_id])
Resolved(r) == ~IsNa(r.location_id) /\ ~IsNa(r.condition_id) /\ ~IsNa(r.year_built_id)

\* _transform_and_load_fact_data: DELETE FROM fact, the three mappings, house_id
\* 1..N, the key lookups, dropna on the three ids, transaction_id = label + 1,
\* executemany
_transform_and_load_fact_data(dfv, d, emptyRaises) ==
    IF "fact_house_transactions" \notin d.tables
    THEN [db |-> d, raised |-> TRUE, dropped |-> 0]
    ELSE LET cleared == [d EXCEPT !.fact = <<>>]
         IN  IF ~({"dim_locations", "dim_conditions", "dim_years"} \subseteq d.tables)
             THEN [db |-> cleared, raised |-> TRUE, dropped |-> 0]
             ELSE
             LET location_mapping  == _get_location_mapping(d)
                 condition_mapping == _get_condition_mapping(d)
                 year_mapping      == _get_year_mapping(d)
                 df_fact == [k \in 1..Len(dfv) |->
                               [index |-> dfv[k].index, house_id |-> k,
                                location_id |-> MapKey(location_mapping, dfv[k].location),
                                condition_id |-> MapKey(condition_mapping, dfv[k].condition),
                                year_built_id |-> MapKey(year_mapping, dfv[k].year_built),
                                price |-> dfv[k].price, sqft |-> dfv[k].sqft,
                                bedrooms |-> dfv[k].bedrooms,
                                bathrooms |-> dfv[k].bathrooms]]
                 ord == SortedSeq({k \in 1..Len(df_fact) : Resolved(df_fact[k])})
                 data_tuples ==
                    [n \in 1..Len(ord) |->
                        LET row == df_fact[ord[n]]
                        IN  [transaction_id |-> row.index + 1,
                             house_id |-> row.house_id,
                             location_id |-> row.location_id[1],
                             condition_id |-> row.condition_id[1],
                             year_built_id |-> row.year_built_id[1],
                             price |-> row.price, sqft |-> row.sqft,
                             bedrooms |-> row.bedrooms, bathrooms |-> row.bathrooms]]
                 dropped == Len(df_fact) - Len(ord)
             IN  IF Len(data_tuples) = 0 /\ emptyRaises
                 THEN [db |-> cleared, raised |-> TRUE, dropped |-> dropped]
                 ELSE IF \/ \E n \in 1..Len(data_tuples) : ~ForeignKeysHold(d, data_tuples[n])
                         \/ ~PrimaryKeyHolds(cleared.fact \o data_tuples, "transaction_id")
                 THEN [db |-> cleared, raised |-> TRUE, dropped |-> dropped]
                 ELSE [db |-> [cleared EXCEPT !.fact = @ \o data_tuples],
                       raised |-> FALSE, dropped |-> dropped]

\* the join of v_house_analytics: fact rows whose three dimension rows are active
Analytics(d) ==
    {n \in 1..Len(d.fact) :
        /\ \E j \in 1..Len(d.locations) :
              d.locations[j].location_id = d.fact[n].location_id /\ d.locations[j].is_active
        /\ \E j \in 1..Len(d.conditions) :
              d.conditions[j].condition_id = d.fact[n].condition_id /\ d.conditions[j].is_active
        /\ \E j \in 1..Len(d.years) :
              d.years[j].year_id = d.fact[n].year_built_id /\ d.years[j].is_active}

\* variant: a failed query leaves a summary of no houses
_generate_summary_statistics_zero(d) ==
    IF SchemaViews \subseteq d.views
       /\ {"fact_house_transactions", "dim_locations", "dim_conditions",
           "dim_years"} \subseteq d.tables
    THEN [empty |-> FALSE, total_houses |-> Cardinality(Analytics(d))]
    ELSE [empty |-> FALSE, total_houses |-> 0]

\* _generate_summary_statistics: the three view queries; any exception is
\* logged and an empty dict returned
_generate_summary_statistics(d) ==
    IF SchemaViews \subseteq d.views
       /\ {"fact_house_transactions", "dim_locations", "dim_conditions",
           "dim_years"} \subseteq d.tables
    THEN [empty |-> FALSE, total_houses |-> Cardinality(Analytics(d))]
    ELSE [empty |-> TRUE, total_houses |-> 0]

required_tables == <<"raw_house_data", "fact_house_transactions", "dim_locations",
                     "dim_conditions", "dim_years">>

\* f"table_exists_{table}"
TableCheck(t) ==
    CASE t = "raw_house_data" -> "table_exists_raw_house_data"
      [] t = "fact_house_transactions" -> "table_exists_fact_house_transactions"
      [] t = "dim_locations" -> "table_exists_dim_locations"
      [] t = "dim_conditions" -> "table_exists_dim_conditions"
      [] t = "dim_years" -> "table_exists_dim_years"

\* the orphan query: fact LEFT JOIN the three dimensions on the keys, counting
\* the rows where a joined key is NULL
orphaned_count(d) ==
    Cardinality({n \in 1..Len(d.fact) :
        \/ ~\E j \in 1..Len(d.locations) : d.locations[j].location_id = d.fact[n].location_id
        \/ ~\E j \in 1..Len(d.conditions) : d.conditions[j].condition_id = d.fact[n].condition_id
        \/ ~\E j \in 1..Len(d.years) : d.years[j].year_id = d.fact[n].year_built_id})

NoChecks == [x \in {} |-> TRUE]

\* variant: the count comparison records its check and appends no error
ConsistencyErrorsDropped(errors, raw_count, fact_count) == errors

\* lines 400-401: the count comparison appends an error when the counts differ
ConsistencyErrors(errors, raw_count, fact_count) ==
    IF raw_count # fact_count THEN Append(errors, "data_consistency") ELSE errors

\* lines 417-418: the orphan check appends an error when the count is positive
OrphanErrors(errors, count) ==
    IF count > 0 THEN Append(errors, "no_orphaned_records") ELSE errors

\* lines 421-422: "failed" when the errors list is not empty
Status(errors) == IF errors # <<>> THEN "failed" ELSE "passed"

\* the result of the except branch of validate_ingestion
ValidationError(cause) ==
    [status |-> "error", checks |-> NoChecks, errors |-> <<cause>>, error |-> cause]

\* validate_ingestion after its first query connected: the five existence
\* checks, the count comparison when raw and fact exist, the orphan query
\* (which raises when one of its four tables is missing), then the status
validate_ingestion(d) ==
    LET missing == SelectSeq(required_tables, LAMBDA t : ~table_exists(d, t))
        both    == table_exists(d, "raw_house_data")
                   /\ table_exists(d, "fact_house_transactions")
        raw_count  == get_table_count(d, "raw_house_data")
        fact_count == get_table_count(d, "fact_house_transactions")
        existence == [c \in {TableCheck(required_tables[i]) : i \in 1..Len(required_tables)} |->
                        \E i \in 1..Len(required_tables) :
                            c = TableCheck(required_tables[i])
                            /\ table_exists(d, required_tables[i])]
        errors1 == [i \in 1..Len(missing) |-> TableCheck(missing[i])]
        checks2 == IF both
                   THEN [c \in DOMAIN existence \cup {"data_consistency"} |->
                            IF c = "data_consistency" THEN raw_count = fact_count
                            ELSE existence[c]]
                   ELSE existence
        errors2 == IF both THEN ConsistencyErrors(errors1, raw_count, fact_count)
                   ELSE errors1
    IN  IF ~({"fact_house_transactions", "dim_locations", "dim_conditions",
              "dim_years"} \subseteq d.tables)
        THEN ValidationError("CatalogException")
        ELSE LET checks3 == [c \in DOMAIN checks2 \cup {"no_orphaned_records"} |->
                                IF c = "no_orphaned_records" THEN orphaned_count(d) = 0
                                ELSE checks2[c]]
                 errors3 == OrphanErrors(errors2, orphaned_count(d))
             IN  [status |-> Status(errors3),
                  checks |-> checks3, errors |-> errors3, error |-> ""]

(***************************************************************************)
(* State machine.                                                          *)
(***************************************************************************)
Counts == [raw |-> Len(raw_house_data), fact |-> Len(fact_house_transactions),
           bronze |-> Len(bronze_raw_house_data)]

NoCounts == [raw |-> 0, fact |-> 0, bronze |-> 0]

NoRun == [status |-> "none", step |-> "", raw_rows_inserted |-> 0,
          fact_rows_inserted |-> 0, rows_processed |-> 0,
          rows_with_missing_dimensions |-> 0,
          summary |-> [empty |-> TRUE, total_houses |-> 0]]

NoCsv == [columns |-> required_columns, rows |-> <<>>]

NoValidation == [status |-> "none", checks |-> NoChecks, errors |-> <<>>, error |-> ""]

NoBronze == [status |-> "none", rows_inserted |-> 0]

\* a new manager on a new database file, no operation called yet
Constructed ==
    /\ connection = None
    /\ live = {}
    /\ opened = 0
    /\ lastRet = None
    /\ tables = {}
    /\ views = {}
    /\ raw_house_data = <<>>
    /\ fact_house_transactions = <<>>
    /\ bronze_raw_house_data = <<>>
    /\ dim_locations = <<>>
    /\ dim_conditions = <<>>
    /\ dim_years = <<>>
    /\ pc = "idle"
    /\ df = <<>>
    /\ lastIngest = NoRun
    /\ lastValidation = NoValidation
    /\ lastBronze = NoBronze
    /\ lastOp = "none"
    /\ raised = FALSE
    /\ again = FALSE
    /\ before = NoCounts
    /\ reseeded = {}
    /\ dropLog = <<>>
    /\ recovering = FALSE

Init == Constructed /\ csv = NoCsv

\* the rows of the dimension tables of d that differ in e, by table and key
RowsUpdated(d, e) ==
    {<<"dim_locations", d.locations[j].location_id>> :
        j \in {j \in 1..Len(d.locations) : e.locations[j] # d.locations[j]}}
    \cup {<<"dim_conditions", d.conditions[j].condition_id>> :
        j \in {j \in 1..Len(d.conditions) : e.conditions[j] # d.conditions[j]}}
    \cup {<<"dim_years", d.years[j].year_id>> :
        j \in {j \in 1..Len(d.years) : e.years[j] # d.years[j]}}

\* a public operation other than the ingestions and validations returned
\* (r = FALSE) or raised (r = TRUE), having overwritten the dimension rows u
\* and issued DROP statements for the objects of log; the record of the last
\* ingest and validation is dropped
DoneRecover(op, r, u, log, rec) ==
    /\ lastOp' = op
    /\ raised' = r
    /\ again' = (lastOp = op /\ ~raised)
    /\ before' = NoCounts
    /\ pc' = "idle"
    /\ csv' = NoCsv
    /\ df' = <<>>
    /\ lastIngest' = NoRun
    /\ lastValidation' = NoValidation
    /\ lastBronze' = NoBronze
    /\ reseeded' = u
    /\ dropLog' = log
    /\ recovering' = rec

DoneWith(op, r, u, log) == DoneRecover(op, r, u, log, FALSE)

DoneSeed(op, r, u) == DoneWith(op, r, u, <<>>)

Done(op, r) == DoneSeed(op, r, {})

\* DWHManager.connect()
Connect ==
    /\ pc = "idle"
    /\ CanConnect
    /\ \E o \in connect :
          /\ SetConn(o)
          /\ Done("connect", o.raised)
    /\ UNCHANGED dbvars

\* DWHManager.disconnect()
Disconnect ==
    /\ pc = "idle"
    /\ \E closeRaises \in (IF connection = None THEN {FALSE} ELSE BOOLEAN) :
          \E released \in (IF closeRaises THEN BOOLEAN ELSE {TRUE}) :
              LET r == disconnect(closeRaises, released)
              IN  /\ connection' = r.connection
                  /\ live' = r.live
    /\ Done("disconnect", FALSE)
    /\ lastRet' = None
    /\ UNCHANGED <<opened, dbvars>>

\* the last operation was a create_schema that raised and left a schema whose
\* last seed statement has not run
StoppedPartWay ==
    lastOp = "create_schema" /\ raised /\ tables # {} /\ dim_years = <<>>

\* create_schema(dwh_manager)
CreateSchema ==
    /\ pc = "idle"
    /\ CanConnect
    /\ \E o \in connect :
          /\ SetConn(o)
          /\ IF o.raised
             THEN UNCHANGED dbvars /\ Done("create_schema", TRUE)
             ELSE LET r == create_schema(DB)
                  IN  /\ SetDB(r.db)
                      /\ DoneRecover("create_schema", r.raised, RowsUpdated(DB, r.db),
                                     <<>>, StoppedPartWay)

\* drop_schema(dwh_manager).  Without a handle, each DROP VIEW calls connect()
\* anew: `failed` of them find the file cannot be opened before the connect()
\* with outcome o; when that one opened the file and raised in its set-up, its
\* statement is lost too and the later ones run on the handle it left.  A
\* connect() that raises in the table loop ends drop_schema.
DropSchema ==
    /\ pc = "idle"
    /\ CanConnect
    /\ \E o \in connect, failed \in 0..Len(DropViewOrder) :
          /\ connection # None => failed = 0
          /\ o.connection = None => failed = Len(DropViewOrder)
          /\ IF o.raised /\ (o.connection = None \/ failed = Len(DropViewOrder))
             THEN /\ SetConn(o)
                  /\ UNCHANGED dbvars
                  /\ DoneWith("drop_schema", TRUE, {},
                              [i \in 1..Len(DropViewOrder) |->
                                  DropEntry(DB, DropViewOrder[i])]
                              \o <<DropEntry(DB, DropOrder[1])>>)
             ELSE LET r == drop_schema(DB, IF o.raised THEN failed + 1 ELSE failed)
                  IN  /\ SetConn([o EXCEPT !.ret = o.connection])
                      /\ SetDB(r.db)
                      /\ DoneWith("drop_schema", r.raised, {}, r.log)

\* validate_ingestion(dwh_manager): never raises; a failed connect is caught
\* like any other exception
ValidateIngestion ==
    /\ pc = "idle"
    /\ CanConnect
    /\ \E o \in connect :
          /\ SetConn(o)
          /\ lastValidation' = IF o.raised THEN ValidationError("ConnectionException")
                               ELSE validate_ingestion(DB)
    /\ lastOp' = "validate"
    /\ raised' = FALSE
    /\ UNCHANGED <<dbvars, runvars, lastBronze, again, before, reseeded, dropLog,
                   recovering>>

\* variant: the except branch returns a result instead of re-raising
IngestSwallow(step) ==
    /\ pc' = "idle"
    /\ lastIngest' = [NoRun EXCEPT !.status = "success", !.step = step]
    /\ raised' = FALSE
    /\ again' = FALSE
    /\ before' = NoCounts
    /\ recovering' = FALSE

\* ingest_house_data raised at the named step: the except branch re-raises,
\* the caller gets no result
IngestRaise(step) ==
    /\ pc' = "idle"
    /\ lastIngest' = [NoRun EXCEPT !.status = "failed", !.step = step]
    /\ raised' = TRUE
    /\ again' = FALSE
    /\ before' = NoCounts
    /\ recovering' = FALSE

\* variant: the schema is created whenever one of its tables is missing
schema_missing_any(d) == ~(SchemaTables \subseteq d.tables)

\* line 43: if not dwh_manager.table_exists("raw_house_data")
schema_missing(d) == ~table_exists(d, "raw_house_data")

\* ingest_house_data(csv_file_path, dwh_manager, create_schema_if_not_exists),
\* lines 41-52: the schema check and the auto-create
IngestBegin ==
    /\ pc = "idle"
    /\ CanConnect
    /\ lastOp' = "ingest"
    /\ lastValidation' = NoValidation
    /\ lastBronze' = NoBronze
    /\ reseeded' = {}
    /\ dropLog' = <<>>
    /\ \E f \in BOOLEAN :
          LET running == /\ pc' = "load_csv"
                         /\ lastIngest' = [NoRun EXCEPT !.status = "running"]
                         /\ raised' = FALSE
                         /\ again' = (lastOp = "ingest" /\ ~raised)
                         /\ before' = IF (lastOp = "ingest" /\ ~raised) \/ lastOp = "crash"
                                      THEN Counts ELSE NoCounts
                         /\ recovering' = (lastOp = "crash")
              failed  == IngestRaise("schema")
          IN  IF ~f
              THEN running /\ UNCHANGED <<connvars, dbvars>>
              ELSE \E o \in connect :
                     /\ SetConn(o)
                     /\ IF o.raised
                        THEN UNCHANGED dbvars /\ failed
                        ELSE IF ~schema_missing(DB)
                        THEN UNCHANGED dbvars /\ running
                        ELSE LET r == create_schema(DB)
                             IN  SetDB(r.db) /\ IF r.raised THEN failed ELSE running
    /\ UNCHANGED <<csv, df>>

\* line 55: df = _load_and_validate_csv(csv_file_path), on one of the given
\* files; the file is read here
IngestLoadCsvFrom(files) ==
    /\ pc = "load_csv"
    /\ \E c \in files :
          /\ csv' = c
          /\ LET r == _load_and_validate_csv(c)
             IN  IF r.raised
                 THEN IngestRaise("load_csv") /\ df' = <<>>
                 ELSE /\ df' = r.df
                      /\ pc' = "raw"
                      /\ again' = (again /\ c = csv)
                      /\ before' = IF (again \/ recovering) /\ c = csv
                                   THEN before ELSE NoCounts
                      /\ recovering' = (recovering /\ c = csv)
                      /\ UNCHANGED <<lastIngest, raised>>
    /\ UNCHANGED <<connvars, dbvars, lastValidation, lastBronze, lastOp, reseeded, dropLog>>

IngestLoadCsv == IngestLoadCsvFrom(CsvFiles)

\* line 58: raw_stats = _ingest_raw_data(df, dwh_manager)
IngestRaw ==
    /\ pc = "raw"
    /\ \E o \in connect, emptyRaises \in (IF df = <<>> THEN BOOLEAN ELSE {FALSE}) :
          /\ SetConn(o)
          /\ IF o.raised
             THEN UNCHANGED dbvars /\ IngestRaise("raw")
             ELSE LET r == _ingest_raw_data(df, DB, emptyRaises)
                  IN  /\ SetDB(r.db)
                      /\ IF r.raised
                         THEN IngestRaise("raw")
                         ELSE /\ pc' = "fact"
                              /\ lastIngest' =
                                   [lastIngest EXCEPT !.raw_rows_inserted =
                                        get_table_count(r.db, "raw_house_data")]
                              /\ UNCHANGED <<raised, again, before, recovering>>
    /\ UNCHANGED <<csv, df, lastValidation, lastBronze, lastOp, reseeded, dropLog>>

\* line 61: fact_stats = _transform_and_load_fact_data(df, dwh_manager)
IngestFact ==
    /\ pc = "fact"
    /\ \E emptyRaises \in BOOLEAN :
          LET r == _transform_and_load_fact_data(df, DB, emptyRaises)
          IN  /\ SetDB(r.db)
              /\ IF r.raised
                 THEN IngestRaise("fact")
                 ELSE /\ pc' = "summary"
                      /\ lastIngest' =
                           [lastIngest EXCEPT
                              !.fact_rows_inserted =
                                  get_table_count(r.db, "fact_house_transactions"),
                              !.rows_processed = Len(df),
                              !.rows_with_missing_dimensions = r.dropped]
                      /\ UNCHANGED <<raised, again, before, recovering>>
    /\ UNCHANGED <<connvars, csv, df, lastValidation, lastBronze, lastOp, reseeded, dropLog>>

\* lines 64-75: the summary statistics and the success result
IngestFinish ==
    /\ pc = "summary"
    /\ pc' = "idle"
    /\ lastIngest' = [lastIngest EXCEPT !.status = "success",
                                        !.summary = _generate_summary_statistics(DB)]
    /\ UNCHANGED <<connvars, dbvars, csv, df, lastValidation, lastBronze, histvars>>

(***************************************************************************)
(* Writers other than this program: the database file outlives the         *)
(* process, and another tool can change a row or drop a table between two  *)
(* operations.                                                             *)
(***************************************************************************)
SetWhere(table, key, k, col, v) ==
    [j \in 1..Len(table) |->
        IF table[j][key] = k THEN [table[j] EXCEPT ![col] = v] ELSE table[j]]

\* UPDATE dim_locations SET location_type = 'Renamed' WHERE location_id = 1
ExtSetLocationType ==
    /\ pc = "idle"
    /\ \E j \in 1..Len(dim_locations) :
          dim_locations[j].location_id = 1 /\ dim_locations[j].location_type # "Renamed"
    /\ dim_locations' = SetWhere(dim_locations, "location_id", 1, "location_type", "Renamed")
    /\ Done("external", FALSE)
    /\ UNCHANGED <<connvars, tables, views, raw_house_data, fact_house_transactions,
                   bronze_raw_house_data, dim_conditions, dim_years>>

\* UPDATE dim_locations SET is_active = FALSE WHERE location_id = 1
ExtDeactivate ==
    /\ pc = "idle"
    /\ \E j \in 1..Len(dim_locations) :
          dim_locations[j].location_id = 1 /\ dim_locations[j].is_active
    /\ dim_locations' = SetWhere(dim_locations, "location_id", 1, "is_active", FALSE)
    /\ Done("external", FALSE)
    /\ UNCHANGED <<connvars, tables, views, raw_house_data, fact_house_transactions,
                   bronze_raw_house_data, dim_conditions, dim_years>>

\* DROP TABLE raw_house_data
ExtDropRaw ==
    /\ pc = "idle"
    /\ "raw_house_data" \in tables
    /\ tables' = tables \ {"raw_house_data"}
    /\ raw_house_data' = <<>>
    /\ Done("external", FALSE)
    /\ UNCHANGED <<connvars, views, fact_house_transactions, bronze_raw_house_data,
                   dim_locations,
                   dim_conditions, dim_years>>

\* DROP VIEW on one of the analytics views
ExtDropView ==
    /\ pc = "idle"
    /\ \E v \in views : views' = views \ {v}
    /\ Done("external", FALSE)
    /\ UNCHANGED <<connvars, tables, raw_house_data, fact_house_transactions,
                   bronze_raw_house_data, dim_locations, dim_conditions, dim_years>>

\* the warehouse operations alone: the caller never calls connect() or
\* disconnect() itself, the handle is opened by the first query
NextWarehouse ==
    \/ CreateSchema
    \/ DropSchema
    \/ ValidateIngestion
    \/ IngestBegin
    \/ IngestLoadCsv
    \/ IngestRaw
    \/ IngestFact
    \/ IngestFinish

SpecWarehouse == Init /\ [][NextWarehouse]_vars

\* the manager's lifecycle around the schema operations and the validation,
\* on a database whose tables another writer may have changed
NextManager ==
    \/ Connect
    \/ Disconnect
    \/ CreateSchema
    \/ DropSchema
    \/ ValidateIngestion
    \/ ExtSetLocationType
    \/ ExtDropRaw

SpecManager == Init /\ [][NextManager]_vars

\* the warehouse operations on a database other writers also change
NextExt ==
    \/ NextWarehouse
    \/ ExtDeactivate
    \/ ExtDropRaw

SpecExt == Init /\ [][NextExt]_vars

\* the rows of the files given to _load_and_validate_csv on its own: the values
\* on both sides of every bound of the range filter, a non-numeric price and
\* an empty location
FilterRows ==
    { GoodRow,
      [GoodRow EXCEPT !.price = Num(0)],
      [GoodRow EXCEPT !.price = Num(1)],
      [GoodRow EXCEPT !.price = Junk],
      [GoodRow EXCEPT !.sqft = Num(0)],
      [GoodRow EXCEPT !.bedrooms = Num(0)],
      [GoodRow EXCEPT !.bathrooms = Num(0)],
      [GoodRow EXCEPT !.year_built = Num(MinYearBuilt - 1)],
      [GoodRow EXCEPT !.year_built = Num(MinYearBuilt)],
      [GoodRow EXCEPT !.year_built = Num(CurrentYear)],
      [GoodRow EXCEPT !.year_built = Num(CurrentYear + 1)],
      [GoodRow EXCEPT !.location = ""] }

FilterFiles ==
    {[columns |-> required_columns, rows |-> q] : q \in SeqsUpTo(FilterRows, MaxFilterRows)}
    \cup {[columns |-> required_columns \ {"condition"}, rows |-> <<>>]}

\* _load_and_validate_csv called on the file csv
LoadAndValidateCsv ==
    /\ lastOp = "none"
    /\ LET r == _load_and_validate_csv(csv)
       IN  /\ df' = r.df
           /\ raised' = r.raised
    /\ lastOp' = "load_csv"
    /\ UNCHANGED <<connvars, dbvars, pc, csv, lastIngest, lastValidation, lastBronze,
                   again, before, reseeded, dropLog, recovering>>

\* _load_and_validate_csv as a function of the file alone
InitFilter == Constructed /\ csv \in FilterFiles

NextFilter == LoadAndValidateCsv

SpecFilter == InitFilter /\ [][NextFilter]_vars

\* what an interrupted bulk insert can leave of the rows it was inserting
Prefixes(rows) == {SubSeq(rows, 1, n) : n \in 0..Len(rows)}

\* the process is killed during a run of ingest_house_data, between two steps
\* or inside the raw or the fact step: the table of that step is as before the
\* step, empty after its DELETE, or holds the first rows of its executemany;
\* the manager and the frame are gone, the database file and the CSV stay, and
\* the next operation runs in a new process with a new manager; the run
\* returned nothing, its record keeps the step it was stopped in
Crash ==
    /\ pc # "idle"
    /\ LET r == CASE pc = "raw"  -> _ingest_raw_data(df, DB, FALSE).db
                  [] pc = "fact" -> _transform_and_load_fact_data(df, DB, FALSE).db
                  [] OTHER       -> DB
       IN  \E rw \in {raw_house_data} \cup (IF pc = "raw" THEN Prefixes(r.raw) ELSE {}),
              fc \in {fact_house_transactions}
                        \cup (IF pc = "fact" THEN Prefixes(r.fact) ELSE {}) :
              SetDB([DB EXCEPT !.raw = rw, !.fact = fc])
    /\ connection' = None
    /\ live' = {}
    /\ lastRet' = None
    /\ opened' = 0
    /\ pc' = "idle"
    /\ df' = <<>>
    /\ lastIngest' = [NoRun EXCEPT !.status = "interrupted", !.step = pc]
    /\ lastValidation' = NoValidation
    /\ lastBronze' = NoBronze
    /\ lastOp' = "crash"
    /\ raised' = FALSE
    /\ again' = FALSE
    /\ before' = NoCounts
    /\ reseeded' = {}
    /\ dropLog' = <<>>
    /\ recovering' = FALSE
    /\ UNCHANGED csv

\* the files of the runs that may be interrupted: no row, one row, two rows
\* that reach the fact table, a row that resolves no location before one that
\* does, and a row the validation drops before one it keeps
CrashSample ==
    {[columns |-> required_columns, rows |-> q] :
        q \in { <<>>, <<GoodRow>>, <<GoodRow, GoodRow>>,
                <<[GoodRow EXCEPT !.location = "Atlantis"], GoodRow>>,
                <<[GoodRow EXCEPT !.price = Num(0), !.sqft = Junk], GoodRow>> }}

IngestLoadCsvSample == IngestLoadCsvFrom(CrashSample)

\* runs of ingest_house_data, any of which the process may not survive
NextCrash ==
    \/ IngestBegin
    \/ IngestLoadCsvSample
    \/ IngestRaw
    \/ IngestFact
    \/ IngestFinish
    \/ Crash

SpecCrash == Init /\ [][NextCrash]_vars

\* interrupted runs, each of which may be followed by a validate_ingestion
NextCrashValidate ==
    \/ NextCrash
    \/ ValidateIngestion

SpecCrashValidate == Init /\ [][NextCrashValidate]_vars

(***************************************************************************)
(* The bronze pipeline (ml/data/dwh/core/ingestion.py).  It uses the same  *)
(* manager and the same database file as the warehouse pipeline.           *)
(***************************************************************************)
\* the rows of the files given to ingest_bronze_data: one the warehouse
\* pipeline would load, one it would filter out and could not resolve, one
\* with an empty text cell and one with text in a numeric column
BronzeRows == { GoodRow,
                [GoodRow EXCEPT !.price = Num(0), !.location = "Atlantis"],
                [GoodRow EXCEPT !.location = ""],
                [GoodRow EXCEPT !.sqft = Junk] }

\* every sequence of rows up to MaxRows under the full header, and one file
\* with a row whose header lacks a column
BronzeFiles ==
    {[columns |-> required_columns, rows |-> q] : q \in SeqsUpTo(BronzeRows, MaxRows)}
    \cup {[columns |-> required_columns \ {"condition"}, rows |-> <<GoodRow>>]}

\* SQL NULL, what None is inserted as
Null == [null |-> TRUE]

\* str(row[c]) if pd.notna(row[c]) else None
bronze_text(cell) == IF IsNa(read_text(cell)) THEN Null ELSE cell

\* float(row[c]) / int(row[c]) raise ValueError on text that is no number
ConversionRaises(row) ==
    \E f \in {"price", "sqft", "bedrooms", "bathrooms", "year_built"} : ~row[f].num

\* _create_bronze_table: CREATE TABLE IF NOT EXISTS bronze_raw_house_data
_create_bronze_table(d) == [d EXCEPT !.tables = @ \cup {"bronze_raw_house_data"}]

\* the tuple built for the k-th row of the frame, id = k
BronzeTuple(rows, k) ==
    [id |-> k, price |-> rows[k].price.val, sqft |-> rows[k].sqft.val,
     bedrooms |-> rows[k].bedrooms.val, bathrooms |-> rows[k].bathrooms.val,
     location |-> bronze_text(rows[k].location),
     year_built |-> rows[k].year_built.val,
     condition |-> bronze_text(rows[k].condition)]

\* variant: no DELETE, the new rows numbered after the ones in the table
_ingest_bronze_data_append(c, d, emptyRaises) ==
    IF "bronze_raw_house_data" \notin d.tables
          \/ (Len(c.rows) > 0 /\ ~(required_columns \subseteq c.columns))
          \/ (\E k \in 1..Len(c.rows) : ConversionRaises(c.rows[k]))
    THEN [db |-> d, raised |-> TRUE, rows_inserted |-> 0]
    ELSE LET new == [k \in 1..Len(c.rows) |->
                        [BronzeTuple(c.rows, k) EXCEPT !.id = Len(d.bronze) + k]]
         IN  [db |-> [d EXCEPT !.bronze = @ \o new], raised |-> FALSE,
              rows_inserted |-> Len(d.bronze) + Len(new)]

\* _ingest_bronze_data: DELETE FROM bronze_raw_house_data, id = 1..len(df),
\* the tuples (a missing column is a KeyError, text in a numeric column a
\* ValueError), executemany, rows_inserted = the table's count
_ingest_bronze_data(c, d, emptyRaises) ==
    IF "bronze_raw_house_data" \notin d.tables
    THEN [db |-> d, raised |-> TRUE, rows_inserted |-> 0]
    ELSE LET cleared == [d EXCEPT !.bronze = <<>>]
         IN  IF \/ Len(c.rows) > 0 /\ ~(required_columns \subseteq c.columns)
                \/ \E k \in 1..Len(c.rows) : ConversionRaises(c.rows[k])
             THEN [db |-> cleared, raised |-> TRUE, rows_inserted |-> 0]
             ELSE LET data_tuples == [k \in 1..Len(c.rows) |-> BronzeTuple(c.rows, k)]
                  IN  IF \/ Len(data_tuples) = 0 /\ emptyRaises
                         \/ ~PrimaryKeyHolds(cleared.bronze \o data_tuples, "id")
                      THEN [db |-> cleared, raised |-> TRUE, rows_inserted |-> 0]
                      ELSE LET e == [cleared EXCEPT !.bronze = @ \o data_tuples]
                           IN  [db |-> e, raised |-> FALSE,
                                rows_inserted |-> get_table_count(e, "bronze_raw_house_data")]

\* ingest_bronze_data after its first statement connected: pd.read_csv,
\* _create_bronze_table, _ingest_bronze_data
ingest_bronze_data(c, d, emptyRaises) ==
    _ingest_bronze_data(c, _create_bronze_table(d), emptyRaises)

\* variant: an empty table counts as having data
BronzeHasDataAlways(row_count) == row_count >= 0

\* validation_results["checks"]["bronze_has_data"] = row_count > 0
BronzeHasData(row_count) == row_count > 0

\* validate_bronze_ingestion after its first query connected
validate_bronze_ingestion(d) ==
    LET exists    == table_exists(d, "bronze_raw_house_data")
        row_count == get_table_count(d, "bronze_raw_house_data")
        checks    == IF exists
                     THEN [bronze_table_exists |-> TRUE,
                           bronze_has_data |-> BronzeHasData(row_count)]
                     ELSE [bronze_table_exists |-> FALSE]
        errors    == (IF ~exists THEN <<"Bronze table does not exist">> ELSE <<>>)
                     \o (IF exists /\ row_count = 0
                         THEN <<"Bronze table is empty">> ELSE <<>>)
    IN  [status |-> IF errors # <<>> THEN "failed" ELSE "passed",
         checks |-> checks, errors |-> errors, error |-> ""]

\* ingest_bronze_data(csv_file_path, dwh_manager) on one of the given files
IngestBronzeFrom(files) ==
    /\ pc = "idle"
    /\ CanConnect
    /\ \E c \in files, o \in connect, emptyRaises \in BOOLEAN :
          /\ emptyRaises => c.rows = <<>>
          /\ csv' = c
          /\ SetConn(o)
          /\ IF o.raised
             THEN /\ UNCHANGED dbvars
                  /\ raised' = TRUE
                  /\ lastBronze' = [NoBronze EXCEPT !.status = "failed"]
             ELSE LET r == ingest_bronze_data(c, DB, emptyRaises)
                  IN  /\ SetDB(r.db)
                      /\ raised' = r.raised
                      /\ lastBronze' = IF r.raised
                                       THEN [NoBronze EXCEPT !.status = "failed"]
                                       ELSE [status |-> "success",
                                             rows_inserted |-> r.rows_inserted]
    /\ lastOp' = "ingest_bronze"
    /\ again' = (lastOp = "ingest_bronze" /\ ~raised)
    /\ before' = Counts
    /\ df' = <<>>
    /\ lastIngest' = NoRun
    /\ lastValidation' = NoValidation
    /\ reseeded' = {}
    /\ dropLog' = <<>>
    /\ recovering' = FALSE
    /\ UNCHANGED pc

IngestBronze == IngestBronzeFrom(BronzeFiles)

\* the same call where the warehouse pipeline runs too: an empty file, a
\* one-row file, a two-row file and a file whose conversion raises
BronzeSample ==
    {[columns |-> required_columns, rows |-> q] :
        q \in { <<>>, <<GoodRow>>,
                <<[GoodRow EXCEPT !.price = Num(0), !.location = "Atlantis"], GoodRow>>,
                <<[GoodRow EXCEPT !.sqft = Junk]>> }}

IngestBronzeSample == IngestBronzeFrom(BronzeSample)

\* validate_bronze_ingestion(dwh_manager)
ValidateBronze ==
    /\ pc = "idle"
    /\ CanConnect
    /\ \E o \in connect :
          /\ SetConn(o)
          /\ lastValidation' = IF o.raised THEN ValidationError("ConnectionException")
                               ELSE validate_bronze_ingestion(DB)
    /\ lastOp' = "validate_bronze"
    /\ raised' = FALSE
    /\ UNCHANGED <<dbvars, runvars, lastBronze, again, before, reseeded, dropLog,
                   recovering>>

\* the bronze pipeline alone
NextBronze ==
    \/ IngestBronze
    \/ ValidateBronze

SpecBronze == Init /\ [][NextBronze]_vars

\* both pipelines and the schema operations on one database
NextPipelines ==
    \/ CreateSchema
    \/ DropSchema
    \/ IngestBegin
    \/ IngestLoadCsv
    \/ IngestRaw
    \/ IngestFact
    \/ IngestFinish
    \/ IngestBronzeSample

SpecPipelines == Init /\ [][NextPipelines]_vars

\* every operation of the program: the manager, the schema, both pipelines and
\* both validations
Next ==
    \/ Connect
    \/ Disconnect
    \/ CreateSchema
    \/ DropSchema
    \/ ValidateIngestion
    \/ IngestBegin
    \/ IngestLoadCsv
    \/ IngestRaw
    \/ IngestFact
    \/ IngestFinish
    \/ IngestBronze
    \/ ValidateBronze

Spec == Init /\ [][Next]_vars

\* create_schema(dwh_manager) stopped by an engine error in one of its
\* statements: the statements before it are applied, create_schema raises
CreateSchemaStops ==
    /\ pc = "idle"
    /\ CanConnect
    /\ \E o \in connect, k \in 0..(Len(CreateOrder) - 1) :
          /\ ~o.raised
          /\ SetConn(o)
          /\ SetDB(create_schema_partial(DB, k))
          /\ Done("create_schema", TRUE)

\* the manager's lifecycle around the schema operations, create_schema failing
\* at any statement
NextSchema ==
    \/ Connect
    \/ Disconnect
    \/ CreateSchema
    \/ CreateSchemaStops
    \/ DropSchema

SpecSchema == Init /\ [][NextSchema]_vars

\* runs of ingest_house_data on a database whose schema may be part-built
NextPartial ==
    \/ CreateSchemaStops
    \/ DropSchema
    \/ IngestBegin
    \/ IngestLoadCsvSample
    \/ IngestRaw
    \/ IngestFact
    \/ IngestFinish

SpecPartial == Init /\ [][NextPartial]_vars

\* runs of ingest_house_data on a schema whose views another writer may have
\* dropped
NextSummary ==
    \/ CreateSchema
    \/ ExtDropView
    \/ IngestBegin
    \/ IngestLoadCsvSample
    \/ IngestRaw
    \/ IngestFact
    \/ IngestFinish

SpecSummary == Init /\ [][NextSummary]_vars

\* files whose first row has a year_built on one side of a bound of the
\* validation range or of the seeded years, alone or before a row that loads
CoverageSample ==
    {[columns |-> required_columns, rows |-> q] :
        q \in UNION {{<<[GoodRow EXCEPT !.year_built = Num(y)]>>,
                      <<[GoodRow EXCEPT !.year_built = Num(y)], GoodRow>>} :
                        y \in {MinYearBuilt, YearMin - 1, YearMin, YearMax,
                               YearMax + 1, CurrentYear}}}

IngestLoadCsvCoverage == IngestLoadCsvFrom(CoverageSample)

\* runs of ingest_house_data on those files, each followed or not by a
\* validate_ingestion
NextCoverage ==
    \/ IngestBegin
    \/ IngestLoadCsvCoverage
    \/ IngestRaw
    \/ IngestFact
    \/ IngestFinish
    \/ ValidateIngestion

SpecCoverage == Init /\ [][NextCoverage]_vars

(***************************************************************************)
(* Properties.                                                             *)
(***************************************************************************)
\* the last ingest_house_data returned its success result and no operation
\* other than validate_ingestion ran since
Completed == lastIngest.status = "success"

\* C1 (full-refresh ingestion): when ingest_house_data has run to completion
\* twice in a row on the same CSV file, the raw table and the fact table hold
\* as many rows after the second run as they held after the first.
C1_FullRefresh == (Completed /\ again) => Counts = before

C1_Witness ==
    /\ Completed
    /\ again
    /\ Len(raw_house_data) = 2
    /\ Len(fact_house_transactions) = 1

\* a validated row whose location no row of dim_locations carries
Unmatched(r) == r.location \notin Column(dim_locations, "location_name")

\* C2 (key-resolution drop): after a completed ingest, a validated row whose
\* location has no dimension entry is in raw_house_data and not in
\* fact_house_transactions, and a validate_ingestion that follows reports
\* data_consistency false and status "failed".
C2_KeyResolutionDrop ==
    Completed =>
        \A k \in 1..Len(df) :
            Unmatched(df[k]) =>
                /\ \E j \in 1..Len(raw_house_data) :
                      /\ raw_house_data[j].id = k
                      /\ raw_house_data[j].location = df[k].location
                /\ \A n \in 1..Len(fact_house_transactions) :
                      /\ fact_house_transactions[n].house_id # k
                      /\ fact_house_transactions[n].transaction_id # df[k].index + 1
                /\ lastOp = "validate" =>
                      /\ lastValidation.status = "failed"
                      /\ "data_consistency" \in DOMAIN lastValidation.checks
                      /\ ~lastValidation.checks["data_consistency"]

C2_Witness ==
    /\ Completed
    /\ lastOp = "validate"
    /\ \E k \in 1..Len(df) : Unmatched(df[k])
    /\ Len(fact_house_transactions) = 1

\* a dimension row with this key exists and is active
ActiveRef(table, key, k) ==
    \E j \in 1..Len(table) : table[j][key] = k /\ table[j].is_active

\* every fact row references an existing, active row of each dimension
NoOrphans(d) ==
    \A n \in 1..Len(d.fact) :
        /\ ActiveRef(d.locations, "location_id", d.fact[n].location_id)
        /\ ActiveRef(d.conditions, "condition_id", d.fact[n].condition_id)
        /\ ActiveRef(d.years, "year_id", d.fact[n].year_built_id)

\* a step took an active dimension row away: deactivated or deleted it
Deactivated(old, new, key) ==
    /\ old # new
    /\ \E j \in 1..Len(old) : old[j].is_active /\ ~ActiveRef(new, key, old[j][key])

DimDeactivated ==
    \/ Deactivated(dim_locations, dim_locations', "location_id")
    \/ Deactivated(dim_conditions, dim_conditions', "condition_id")
    \/ Deactivated(dim_years, dim_years', "year_id")

\* C3 (no orphans): the fact table starts without orphans; the fact load of
\* ingest_house_data leaves every fact row referencing existing, active
\* dimension rows whatever the tables held before; every step that does not
\* itself deactivate a dimension row keeps it so (create_schema and the
\* ingestion steps never do); and every validate_ingestion that returns a
\* result other than "error" reports no_orphaned_records true.
C3_NoOrphans ==
    /\ NoOrphans(DB)
    /\ [][ /\ pc = "fact" => NoOrphans(DB)'
           /\ (NoOrphans(DB) /\ ~DimDeactivated) => NoOrphans(DB)'
           /\ (lastOp' = "validate" /\ lastValidation'.status # "error") =>
                 /\ "no_orphaned_records" \in DOMAIN lastValidation'.checks
                 /\ lastValidation'.checks["no_orphaned_records"] ]_vars

C3_Witness ==
    /\ Completed
    /\ lastOp = "validate"
    /\ lastValidation.status # "error"
    /\ Len(fact_house_transactions) = 2
    /\ lastValidation.checks["no_orphaned_records"]

\* the three business keys of a validated row each name an active dimension row
AllKeysResolve(r) ==
    /\ ActiveRef(dim_locations, "location_name", r.location)
    /\ ActiveRef(dim_conditions, "condition_name", r.condition)
    /\ ActiveRef(dim_years, "year_value", r.year_built)

\* C4 (row counts): after a completed ingest the fact table holds as many rows
\* as there are validated source rows whose three business keys each resolve
\* to an active dimension row, and the raw table holds one row per validated
\* source row.
C4_RowCounts ==
    Completed =>
        /\ Len(fact_house_transactions) =
              Cardinality({k \in 1..Len(df) : AllKeysResolve(df[k])})
        /\ Len(raw_house_data) = Len(df)

C4_Witness ==
    /\ Completed
    /\ Len(df) = 2
    /\ Len(fact_house_transactions) = 1
    /\ \E k \in 1..Len(df) : df[k].year_built = MinYearBuilt

\* the schema as create_schema leaves it: five tables, four views, the
\* dimension tables with 6, 4 and 81 rows and no key twice
SchemaComplete ==
    /\ tables = SchemaTables
    /\ views = SchemaViews
    /\ Len(dim_locations) = 6
    /\ Len(dim_conditions) = 4
    /\ Len(dim_years) = 81
    /\ UniqueOn(dim_locations, "location_id")
    /\ UniqueOn(dim_conditions, "condition_id")
    /\ UniqueOn(dim_years, "year_id")

\* C5 (idempotent schema creation): every create_schema that returns leaves
\* the five tables, the four views and 6 / 4 / 81 dimension rows without
\* duplicates, and a create_schema called right after one that returned
\* returns too: the second call leaves what the first left.
C5_IdempotentCreate ==
    /\ (lastOp = "create_schema" /\ ~raised) => SchemaComplete
    /\ (lastOp = "create_schema" /\ again) => ~raised

C5_Witness ==
    /\ lastOp = "create_schema"
    /\ again
    /\ ~raised
    /\ SchemaComplete

\* the rows of old are at their place in new with their key and is_active, and
\* carry the seed's value in every seed column
UpsertedInPlace(old, new, seed, key) ==
    /\ Len(new) = Len(old)
    /\ \A j \in 1..Len(old) :
          /\ new[j][key] = old[j][key]
          /\ new[j].is_active = old[j].is_active
          /\ \A i \in 1..Len(seed) :
                seed[i][key] = old[j][key] =>
                    \A f \in DOMAIN seed[i] : new[j][f] = seed[i][f]

\* C6 (dimension upsert): a create_schema that returns, run on dimension
\* tables that hold a row for every seed key, updates the rows in place: each
\* table keeps its row count, each row its surrogate key, and every seed
\* attribute equals the seed value afterwards, whatever it was before.
C6_DimensionUpsert ==
    [][ ( /\ lastOp' = "create_schema"
          /\ ~raised'
          /\ Len(dim_locations) = Len(LocationSeed)
          /\ Len(dim_conditions) = Len(ConditionSeed)
          /\ Len(dim_years) = Len(YearSeed) ) =>
        ( /\ UpsertedInPlace(dim_locations, dim_locations', LocationSeed, "location_id")
          /\ UpsertedInPlace(dim_conditions, dim_conditions', ConditionSeed, "condition_id")
          /\ UpsertedInPlace(dim_years, dim_years', YearSeed, "year_id") ) ]_vars

C6_Witness ==
    /\ lastOp = "create_schema"
    /\ ~raised
    /\ <<"dim_locations", 1>> \in reseeded
    /\ \E j \in 1..Len(dim_locations) :
          /\ dim_locations[j].location_id = 1
          /\ dim_locations[j].location_type = "Residential"

\* C7 (expected absence is "failed"): a validate_ingestion that reached the
\* database while a required table was missing returns status "failed" with
\* the five existence checks recorded.
C7_AbsenceIsFailed ==
    (lastOp = "validate" /\ lastRet # None /\ ~(SchemaTables \subseteq tables)) =>
        /\ lastValidation.status = "failed"
        /\ \A i \in 1..Len(required_tables) :
              TableCheck(required_tables[i]) \in DOMAIN lastValidation.checks

\* the checks of a validation result that are false
FalseChecks(v) == {c \in DOMAIN v.checks : ~v.checks[c]}

\* C8 (status from checks): in a validation result other than "error", the
\* status is "passed" exactly when every recorded check is true and errors is
\* empty, "failed" exactly when some recorded check is false, and errors has
\* one entry for each false check.
C8_StatusFromChecks ==
    lastValidation.status \in {"passed", "failed"} =>
        /\ (lastValidation.status = "passed") <=>
              (FalseChecks(lastValidation) = {} /\ lastValidation.errors = <<>>)
        /\ (lastValidation.status = "failed") <=> (FalseChecks(lastValidation) # {})
        /\ Len(lastValidation.errors) = Cardinality(FalseChecks(lastValidation))
        /\ \A c \in FalseChecks(lastValidation) :
              \E i \in 1..Len(lastValidation.errors) : lastValidation.errors[i] = c

C8_Witness ==
    /\ lastOp = "validate"
    /\ lastValidation.status = "failed"
    /\ "data_consistency" \in FalseChecks(lastValidation)

\* the handles open at one time: none while the manager holds none, else at
\* most the one it holds; and a connect() that returned, returned the handle held
OneLiveHandle ==
    /\ connection = None => live = {}
    /\ connection # None => live \subseteq {connection}
    /\ Cardinality(live) <= 1
    /\ opened = 0 => connection = None
    /\ lastRet # None => lastRet = connection

\* C9 (lazy singleton connection): the manager starts without a handle; a
\* handle appears only by a connect() that opens a new one; while a handle is
\* held every operation other than disconnect() keeps that handle and opens
\* none; at most one handle is live in every state.
C9_LazySingleton ==
    /\ OneLiveHandle
    /\ [][ /\ OneLiveHandle'
           /\ (connection # None /\ lastOp' # "disconnect") =>
                 (connection' = connection /\ opened' = opened)
           /\ (connection = None /\ connection' # None) =>
                 (opened' = opened + 1 /\ connection' = opened') ]_vars

C9_Witness ==
    /\ lastOp = "connect"
    /\ opened = 2
    /\ lastRet = 2
    /\ live = {2}

\* C10 (disconnect idempotence): whenever disconnect() has returned, it did
\* not raise and the manager holds no connection.
C10_DisconnectResets == lastOp = "disconnect" => (~raised /\ connection = None)

\* C11 (failed connect leaves the manager not connected): whenever connect()
\* has raised, the manager holds no connection, so that the next connect()
\* runs the whole set-up again.
C11_FailedConnectResets == (lastOp = "connect" /\ raised) => connection = None

\* the positions of the log of the last drop_schema that name an object of S
LogPositions(log, S) == {i \in 1..Len(log) : log[i].name \in S}

DimensionTables == {"dim_locations", "dim_conditions", "dim_years"}

\* C12 (drop_schema ordering): in every drop_schema call each view drop is
\* attempted before any table drop, the drop of fact_house_transactions is
\* attempted before the drop of any dimension table, and the call removes no
\* dimension table while leaving the fact table in place.
C12_DropOrdering ==
    [][ lastOp' = "drop_schema" =>
          /\ \A i \in LogPositions(dropLog', SchemaViews),
                j \in LogPositions(dropLog', SchemaTables) : i < j
          /\ LogPositions(dropLog', SchemaTables) # {} =>
                SchemaViews = {dropLog'[i].name : i \in LogPositions(dropLog', SchemaViews)}
          /\ \A j \in LogPositions(dropLog', DimensionTables) :
                \E i \in LogPositions(dropLog', {"fact_house_transactions"}) : i < j
          /\ "fact_house_transactions" \in tables' =>
                (DimensionTables \cap tables) \subseteq tables' ]_vars

\* a drop_schema found the whole schema, the fact table included, and dropped it
C12_Witness ==
    /\ lastOp = "drop_schema"
    /\ ~raised
    /\ Len(dropLog) = Len(DropViewOrder) + Len(DropOrder)
    /\ \A i \in 1..Len(dropLog) : dropLog[i].existed
    /\ tables = {}
    /\ views = {}

\* C13 (drop-schema safety): a drop_schema called while the manager holds a
\* connection does not raise, whatever subset of the schema is present (none of
\* it, part of it, or nothing because drop_schema has just run), and leaves
\* none of the five schema tables and none of the four views.
C13_DropSchemaSafe ==
    [][ (DropSchema /\ connection # None) =>
          /\ ~raised'
          /\ tables' \cap SchemaTables = {}
          /\ views' \cap SchemaViews = {} ]_vars

\* a drop_schema on a partially built schema: some tables were there, one was not
C13_Witness ==
    /\ lastOp = "drop_schema"
    /\ ~raised
    /\ connection # None
    /\ \E i \in LogPositions(dropLog, SchemaTables) : dropLog[i].existed
    /\ \E i \in LogPositions(dropLog, SchemaTables) : ~dropLog[i].existed
    /\ tables = {}
    /\ views = {}

\* the rows of the file csv the claimed rule retains, by row label
Retained ==
    {i - 1 : i \in {j \in 1..Len(csv.rows) :
        LET row == csv.rows[j]
        IN  /\ \A f \in {"price", "sqft", "bedrooms", "bathrooms", "year_built"} : row[f].num
            /\ row.location # "" /\ row.condition # ""
            /\ row.price.val > 0 /\ row.sqft.val > 0
            /\ row.bedrooms.val > 0 /\ row.bathrooms.val > 0
            /\ 1900 <= row.year_built.val /\ row.year_built.val <= CurrentYear}}

\* C14 (range-filter boundary): _load_and_validate_csv returns, in file order,
\* exactly the complete rows with price > 0, sqft > 0, bedrooms > 0,
\* bathrooms > 0 and 1900 <= year_built <= current year; a row with year_built
\* 1899 or price 0 is not returned, one with year_built 1900 or the current
\* year and otherwise good values is.
C14_RangeFilter ==
    (lastOp = "load_csv" /\ ~raised) =>
        /\ [k \in 1..Len(df) |-> df[k].index] = SortedSeq(Retained)
        /\ \A k \in 1..Len(df) :
              /\ df[k].year_built # 1899
              /\ df[k].price # 0
              /\ df[k].year_built = csv.rows[df[k].index + 1].year_built.val
        /\ \A i \in 1..Len(csv.rows) :
              csv.rows[i] \in {[GoodRow EXCEPT !.year_built = Num(1900)],
                               [GoodRow EXCEPT !.year_built = Num(CurrentYear)]}
                 => \E k \in 1..Len(df) : df[k].index = i - 1

\* a file with a row built in 1900 and then one built in 1899 was filtered
C14_Witness ==
    /\ lastOp = "load_csv"
    /\ ~raised
    /\ Len(csv.rows) = 2
    /\ csv.rows[1].year_built = Num(1900)
    /\ csv.rows[2].year_built = Num(1899)
    /\ Len(df) = 1
    /\ df[1].index = 0

\* C15 (fail loudly): a run of ingest_house_data that ends before its summary
\* step, because the schema creation, the CSV load, the raw load or the fact
\* load raised, raises to the caller and returns no result; the success result
\* appears only at the end of the summary step of a run in which nothing raised.
C15_FailLoudly ==
    [][ /\ (pc # "summary" /\ pc' = "idle" /\ lastOp' = "ingest") =>
              (raised' /\ lastIngest'.status = "failed")
        /\ (lastIngest'.status = "success" /\ lastIngest # lastIngest') =>
              (pc = "summary" /\ lastOp = "ingest" /\ ~raised /\ ~raised')
        /\ (lastOp' = "ingest" /\ raised') => lastIngest'.status # "success" ]_vars

\* the fact load of a run raised after its schema, CSV and raw steps completed
C15_Witness ==
    /\ lastOp = "ingest"
    /\ raised
    /\ pc = "idle"
    /\ lastIngest.status = "failed"
    /\ lastIngest.step = "fact"
    /\ Len(raw_house_data) > 0

\* the database as a run of ingest_house_data on the file csv leaves it when
\* it starts from empty raw and fact tables and nothing interrupts it
Uninterrupted ==
    LET dfv  == _load_and_validate_csv(csv).df
        r    == _ingest_raw_data(dfv, [DB EXCEPT !.raw = <<>>, !.fact = <<>>], FALSE)
    IN  _transform_and_load_fact_data(dfv, r.db, FALSE).db

\* C16 (crash recovery by re-run): when a run of ingest_house_data was
\* interrupted and the next run, on the same CSV, has completed, the raw and
\* the fact table hold exactly the rows an uninterrupted run on that CSV
\* produces, whatever the interrupted run had left in them.
C16_CrashRecovery ==
    (Completed /\ recovering) =>
        /\ raw_house_data = Uninterrupted.raw
        /\ fact_house_transactions = Uninterrupted.fact

\* the interrupted run had left two raw rows and one fact row; the re-run
\* completed with two fact rows
C16_Witness ==
    /\ Completed
    /\ recovering
    /\ before = [raw |-> 2, fact |-> 1, bronze |-> 0]
    /\ Len(raw_house_data) = 2
    /\ Len(fact_house_transactions) = 2

\* the id column of a table, in row order
Ids(rows) == [k \in 1..Len(rows) |-> rows[k].id]

\* 1..n in order
OneTo(n) == [k \in 1..n |-> k]

\* C17 (staging identity): once a run of ingest_house_data has loaded
\* raw_house_data, its id column is 1..N for the N rows of the validated
\* frame, and after a completed ingest_bronze_data the id column of
\* bronze_raw_house_data is 1..N for the N records of the file, whatever the
\* tables held before.
C17_StagingIdentity ==
    /\ (lastOp = "ingest" /\ (pc \in {"fact", "summary"} \/ Completed)) =>
          Ids(raw_house_data) = OneTo(Len(df))
    /\ (lastOp = "ingest_bronze" /\ ~raised) =>
          Ids(bronze_raw_house_data) = OneTo(Len(csv.rows))

\* a bronze load of two records over a table that held one, beside a loaded
\* raw table
C17_Witness ==
    /\ lastOp = "ingest_bronze"
    /\ ~raised
    /\ before.bronze = 1
    /\ Ids(bronze_raw_house_data) = <<1, 2>>
    /\ Len(raw_house_data) > 0
    /\ Ids(raw_house_data) = OneTo(Len(raw_house_data))

\* C18 (bronze full refresh): a completed ingest_bronze_data leaves the
\* bronze table in existence, holding one row per record of the file, in file
\* order and with the record's values whatever their range, and nothing
\* else; the reported rows_inserted is the table's row count.
C18_BronzeFullRefresh ==
    (lastOp = "ingest_bronze" /\ ~raised) =>
        /\ "bronze_raw_house_data" \in tables
        /\ Len(bronze_raw_house_data) = Len(csv.rows)
        /\ \A k \in 1..Len(csv.rows) :
              /\ bronze_raw_house_data[k].price = csv.rows[k].price.val
              /\ bronze_raw_house_data[k].year_built = csv.rows[k].year_built.val
              /\ (csv.rows[k].location # "" =>
                     bronze_raw_house_data[k].location = csv.rows[k].location)
        /\ lastBronze.status = "success"
        /\ lastBronze.rows_inserted = Len(bronze_raw_house_data)

\* a table of two rows was replaced by the one record of the file, a record
\* the warehouse pipeline filters out
C18_Witness ==
    /\ lastOp = "ingest_bronze"
    /\ ~raised
    /\ before.bronze = 2
    /\ Len(bronze_raw_house_data) = 1
    /\ bronze_raw_house_data[1].price = 0
    /\ bronze_raw_house_data[1].location = "Atlantis"

\* C19 (validate_bronze_ingestion): the call returns a report and does not
\* raise; without the bronze table the status is failed and
\* bronze_table_exists false; with an empty table it is failed and
\* bronze_has_data false; with a row in the table it is passed; the status is
\* error only when the engine raised, here on connecting.
C19_ValidateBronze ==
    lastOp = "validate_bronze" =>
        /\ ~raised
        /\ lastValidation.status \in {"passed", "failed", "error"}
        /\ lastValidation.status = "error" <=> lastRet = None
        /\ lastValidation.status # "error" =>
              IF "bronze_raw_house_data" \notin tables
              THEN /\ lastValidation.status = "failed"
                   /\ ~lastValidation.checks.bronze_table_exists
              ELSE IF Len(bronze_raw_house_data) = 0
              THEN /\ lastValidation.status = "failed"
                   /\ lastValidation.checks.bronze_table_exists
                   /\ ~lastValidation.checks.bronze_has_data
              ELSE lastValidation.status = "passed"

\* the validation of a bronze table that exists and is empty
C19_Witness ==
    /\ lastOp = "validate_bronze"
    /\ "bronze_raw_house_data" \in tables
    /\ Len(bronze_raw_house_data) = 0
    /\ lastValidation.status = "failed"
    /\ ~lastValidation.checks.bronze_has_data

\* the warehouse tables and views, without the bronze table
Warehouse(d) == [d EXCEPT !.tables = @ \ {"bronze_raw_house_data"}, !.bronze = <<>>]

\* C20 (pipeline independence): a step of ingest_bronze_data leaves every
\* table and view other than bronze_raw_house_data as it was; a step of
\* ingest_house_data, create_schema or drop_schema leaves
\* bronze_raw_house_data as it was, existence and rows.
C20_PipelineIndependence ==
    [][ /\ lastOp' = "ingest_bronze" => Warehouse(DB)' = Warehouse(DB)
        /\ lastOp' \in {"ingest", "create_schema", "drop_schema"} =>
              /\ bronze_raw_house_data' = bronze_raw_house_data
              /\ ("bronze_raw_house_data" \in tables') = ("bronze_raw_house_data" \in tables)
      ]_vars

\* drop_schema dropped the whole warehouse schema and left a loaded bronze table
C20_Witness ==
    /\ lastOp = "drop_schema"
    /\ ~raised
    /\ \A i \in 1..Len(dropLog) : dropLog[i].existed
    /\ tables = {"bronze_raw_house_data"}
    /\ Len(bronze_raw_house_data) = 2

\* the order of the steps of one run of ingest_house_data
StepOrder == <<"idle", "load_csv", "raw", "fact", "summary">>

StepIndex(p) == CHOOSE i \in 1..Len(StepOrder) : StepOrder[i] = p

\* C21 (step ordering): within a run of ingest_house_data a step is entered
\* only from the step before it; the tables and views change only in the
\* schema step, before the file is read; the file is read and validated only
\* in the load step; raw_house_data is written only in the raw step, after the
\* validation, and only when the table exists; fact_house_transactions is
\* written only in the fact step, after the raw load, and only when the table
\* exists; the summary is taken only after the fact load.
C21_StepOrdering ==
    [][ lastOp' = "ingest" =>
          /\ pc' # pc => (pc' = "idle" \/ StepIndex(pc') = StepIndex(pc) + 1)
          /\ <<tables', views', dim_locations', dim_conditions', dim_years'>>
                # <<tables, views, dim_locations, dim_conditions, dim_years>>
                => (pc = "idle" /\ csv' = csv /\ df' = df)
          /\ <<csv', df'>> # <<csv, df>> => pc = "load_csv"
          /\ raw_house_data' # raw_house_data =>
                (pc = "raw" /\ "raw_house_data" \in tables
                 /\ df = _load_and_validate_csv(csv).df)
          /\ fact_house_transactions' # fact_house_transactions =>
                (pc = "fact" /\ "fact_house_transactions" \in tables)
          /\ lastIngest'.summary # lastIngest.summary =>
                (pc = "summary" \/ pc' = "load_csv" \/ pc' = "idle") ]_vars

\* a first run on a two-row file went through every step and loaded both tables
C21_Witness ==
    /\ lastOp = "ingest"
    /\ pc = "idle"
    /\ Completed
    /\ ~again
    /\ lastIngest.raw_rows_inserted = 2
    /\ lastIngest.fact_rows_inserted = 2

\* C22 (fact identities): after a completed run of ingest_house_data the
\* transaction_ids of the M rows of fact_house_transactions are 1..M in row
\* order, whichever rows of the file the validation or the key resolution
\* dropped.
C22_TransactionIds ==
    (lastOp = "ingest" /\ Completed) =>
        [k \in 1..Len(fact_house_transactions) |->
            fact_house_transactions[k].transaction_id]
          = OneTo(Len(fact_house_transactions))

\* the database a single create_schema leaves when it runs on an empty one
FreshSchema ==
    create_schema([tables |-> {}, views |-> {}, raw |-> <<>>, fact |-> <<>>,
                   bronze |-> <<>>, locations |-> <<>>, conditions |-> <<>>,
                   years |-> <<>>]).db

\* C23 (re-runnable schema creation): a create_schema that runs to completion
\* leaves the tables, views and dimension rows of a single create_schema on an
\* empty database, whatever part of the schema an earlier, failed
\* create_schema had applied; with a connection held it does run to completion.
C23_RerunnableCreate ==
    [][ CreateSchema =>
          /\ connection # None => ~raised'
          /\ ~raised' =>
                /\ tables' = FreshSchema.tables
                /\ views' = FreshSchema.views
                /\ dim_locations' = FreshSchema.locations
                /\ dim_conditions' = FreshSchema.conditions
                /\ dim_years' = FreshSchema.years ]_vars

\* a create_schema completed after one that had stopped before its last seed
C23_Witness ==
    /\ lastOp = "create_schema"
    /\ ~raised
    /\ recovering
    /\ tables = SchemaTables
    /\ Len(dim_years) = YearMax - YearMin + 1

\* the business value every surrogate key stands for
LocationNames == <<"Suburb", "Downtown", "Rural", "Waterfront", "Urban", "Mountain">>

ConditionNames == <<"Poor", "Fair", "Good", "Excellent">>

DimensionsStable ==
    /\ UniqueOn(dim_locations, "location_id") /\ UniqueOn(dim_locations, "location_name")
    /\ UniqueOn(dim_conditions, "condition_id") /\ UniqueOn(dim_conditions, "condition_name")
    /\ UniqueOn(dim_years, "year_id") /\ UniqueOn(dim_years, "year_value")
    /\ \A j \in 1..Len(dim_locations) :
          /\ dim_locations[j].location_id \in 1..Len(LocationNames)
          /\ dim_locations[j].location_name = LocationNames[dim_locations[j].location_id]
    /\ \A j \in 1..Len(dim_conditions) :
          /\ dim_conditions[j].condition_id \in 1..Len(ConditionNames)
          /\ dim_conditions[j].condition_name = ConditionNames[dim_conditions[j].condition_id]
    /\ \A j \in 1..Len(dim_years) :
          dim_years[j].year_value = 1939 + dim_years[j].year_id

\* C24 (dimension key stability): in every state reached by create_schema,
\* drop_schema, validate_ingestion and ingest_house_data each dimension table
\* has unique keys and unique business values, and every key stands for its one
\* value (location_id 1 is Suburb, year_id k is 1939 + k); the load, raw, fact
\* and summary steps of ingest_house_data leave the dimension tables unchanged.
C24_DimensionKeysStable ==
    /\ DimensionsStable
    /\ [][ /\ DimensionsStable'
           /\ pc # "idle" =>
                 <<dim_locations', dim_conditions', dim_years'>>
                    = <<dim_locations, dim_conditions, dim_years>> ]_vars

\* the schema was created, dropped and created again, and a run loaded two
\* fact rows over the seeded dimensions
C24_Witness ==
    /\ lastOp = "ingest"
    /\ Completed
    /\ again
    /\ Len(fact_house_transactions) = 2
    /\ Len(dim_locations) = 6
    /\ dim_locations[1].location_name = "Suburb"
    /\ dim_years[81].year_value = 2020

\* the fact table a completed run on the file csv would leave
FactOfCsv ==
    _transform_and_load_fact_data(_load_and_validate_csv(csv).df, DB, FALSE).db.fact

\* the last run was stopped after its raw step returned and the fact table
\* is not the one its fact step would have written
StoppedBeforeFactLoaded ==
    /\ lastIngest.status = "interrupted"
    /\ lastIngest.step = "fact"
    /\ fact_house_transactions # FactOfCsv

\* C25 (crash detection): when a run of ingest_house_data is interrupted after
\* raw_house_data was reloaded and before the fact load of the same file
\* completed, a following validate_ingestion does not return status "passed".
C25_CrashDetected ==
    (lastOp = "validate" /\ StoppedBeforeFactLoaded) =>
        lastValidation.status # "passed"

\* C26 (orphan check meaning): whenever some fact row has a foreign key that
\* resolves to no existing, active dimension row (a row deactivated after the
\* fact load included), a validate_ingestion that returns its checks reports
\* no_orphaned_records false.
C26_OrphanCheckSeesInactive ==
    (lastOp = "validate" /\ lastValidation.status # "error" /\ ~NoOrphans(DB)) =>
        /\ "no_orphaned_records" \in DOMAIN lastValidation.checks
        /\ ~lastValidation.checks["no_orphaned_records"]

\* C27 (frame of a rejected file): when the file lacks a required column the
\* load step of ingest_house_data raises and the call ends failed at that
\* step; neither that step nor the schema step before it (which may have
\* created the schema) changes the rows of raw_house_data or of
\* fact_house_transactions.
C27_RejectedFileFrame ==
    [][ /\ (pc = "load_csv" /\ ~(required_columns \subseteq csv'.columns)) =>
              /\ raised'
              /\ pc' = "idle"
              /\ lastIngest'.status = "failed"
              /\ lastIngest'.step = "load_csv"
              /\ raw_house_data' = raw_house_data
              /\ fact_house_transactions' = fact_house_transactions
        /\ (pc = "idle" /\ lastOp' = "ingest") =>
              /\ raw_house_data' = raw_house_data
              /\ fact_house_transactions' = fact_house_transactions ]_vars

\* a run on a file without the condition column failed over tables an
\* earlier run had loaded
C27_Witness ==
    /\ lastOp = "ingest"
    /\ raised
    /\ lastIngest.step = "load_csv"
    /\ ~(required_columns \subseteq csv.columns)
    /\ Len(raw_house_data) = 2
    /\ Len(fact_house_transactions) = 2

\* C28 (auto-create trigger): ingest_house_data creates the schema only when
\* raw_house_data is absent and creation was asked for.  A call that finds
\* raw_house_data leaves tables, views and dimension rows alone; on a schema
\* without fact_house_transactions the fact step then raises with
\* raw_house_data already reloaded from the validated frame; a call that
\* reaches the raw step without raw_house_data (creation not asked for)
\* raises there; so a run completes only on a schema with all five tables.
C28_AutoCreateTrigger ==
    [][ /\ (lastOp' = "ingest" /\ Completed') => SchemaTables \subseteq tables'
        /\ (pc = "idle" /\ lastOp' = "ingest" /\ "raw_house_data" \in tables) =>
              /\ <<tables', views'>> = <<tables, views>>
              /\ <<dim_locations', dim_conditions', dim_years'>>
                    = <<dim_locations, dim_conditions, dim_years>>
        /\ (pc = "fact" /\ "fact_house_transactions" \notin tables) =>
              /\ raised'
              /\ pc' = "idle"
              /\ lastIngest'.step = "fact"
              /\ Ids(raw_house_data') = OneTo(Len(df))
              /\ tables' = tables
        /\ (pc = "raw" /\ "raw_house_data" \notin tables) =>
              /\ raised'
              /\ pc' = "idle"
              /\ lastIngest'.step = "raw"
              /\ tables' = tables ]_vars

\* a run on a schema that stopped before fact_house_transactions was created
\* failed at the fact step after reloading two raw rows
C28_Witness ==
    /\ lastOp = "ingest"
    /\ raised
    /\ lastIngest.step = "fact"
    /\ "raw_house_data" \in tables
    /\ "dim_years" \in tables
    /\ "fact_house_transactions" \notin tables
    /\ Len(raw_house_data) = 2

\* the years the validation accepts and no dim_years row carries
UncoveredYears == (1900..1939) \cup (2021..CurrentYear)

\* the positions of the file's rows that are valid and built in such a year
UncoveredRows(c) ==
    {k \in 1..Len(c.rows) :
        /\ c.rows[k].year_built.num
        /\ c.rows[k].year_built.val \in UncoveredYears
        /\ c.rows[k] = [GoodRow EXCEPT !.year_built = c.rows[k].year_built]}

\* C29 (validation range versus dimension coverage): a valid row with
\* year_built in 1900..1939 or in 2021..current year is in raw_house_data once
\* the raw step has run, is not in fact_house_transactions once the fact step
\* has run, and a validate_ingestion that follows the run and returns its
\* checks reports data_consistency false and status failed.
C29_UncoveredYears ==
    [][ /\ (lastOp' = "ingest" /\ (pc' \in {"fact", "summary"} \/ Completed')) =>
              \A k \in UncoveredRows(csv') :
                 \E n \in 1..Len(raw_house_data') :
                    raw_house_data'[n].year_built = csv'.rows[k].year_built.val
        /\ (lastOp' = "ingest" /\ (pc' = "summary" \/ Completed')) =>
              \A k \in UncoveredRows(csv') :
                 /\ Len(fact_house_transactions') < Len(raw_house_data')
                 /\ \A n \in 1..Len(fact_house_transactions') :
                       fact_house_transactions'[n].transaction_id # k
        /\ ( /\ lastOp = "ingest"
             /\ pc = "idle"
             /\ Completed \/ (lastIngest.status = "failed" /\ lastIngest.step = "fact")
             /\ UncoveredRows(csv) # {}
             /\ lastOp' = "validate"
             /\ lastValidation'.status # "error" ) =>
              /\ "data_consistency" \in DOMAIN lastValidation'.checks
              /\ ~lastValidation'.checks["data_consistency"]
              /\ lastValidation'.status = "failed" ]_vars

\* a completed run on a row built in 2021 before a row built in 1990 loaded
\* two raw rows and one fact row, and the validation that followed failed on
\* the counts
C29_Witness ==
    /\ lastOp = "validate"
    /\ Completed
    /\ Len(csv.rows) = 2
    /\ csv.rows[1].year_built.val = 2021
    /\ UncoveredRows(csv) = {1}
    /\ Len(raw_house_data) = 2
    /\ Len(fact_house_transactions) = 1
    /\ ~lastValidation.checks["data_consistency"]

\* C30 (summary failure is swallowed): the summary step never raises and
\* writes nothing: it ends the run with status success, the counts of the
\* rows the raw and fact steps loaded, and an empty summary when one of the
\* analytics views cannot be queried; a run that ends at any earlier step
\* raises.
C30_SummaryFailureSwallowed ==
    [][ /\ pc = "summary" =>
              /\ pc' = "idle"
              /\ ~raised'
              /\ Completed'
              /\ <<raw_house_data', fact_house_transactions'>>
                    = <<raw_house_data, fact_house_transactions>>
              /\ lastIngest'.raw_rows_inserted = Len(raw_house_data)
              /\ lastIngest'.fact_rows_inserted = Len(fact_house_transactions)
              /\ ~(SchemaViews \subseteq views) => lastIngest'.summary.empty
        /\ (pc # "summary" /\ lastOp' = "ingest" /\ pc' = "idle") =>
              /\ raised'
              /\ lastIngest'.status = "failed" ]_vars

\* a run loaded two raw and two fact rows on a schema without
\* v_summary_statistics and returned success with an empty summary
C30_Witness ==
    /\ lastOp = "ingest"
    /\ Completed
    /\ "v_summary_statistics" \notin views
    /\ lastIngest.summary.empty
    /\ lastIngest.raw_rows_inserted = 2
    /\ lastIngest.fact_rows_inserted = 2
    /\ Len(fact_house_transactions) = 2

====
